---- MODULE Spec2Model ----
(***************************************************************************)
(* Model of src/src/graphics/matrix.rs: the row-major Matrix, its          *)
(* accessors, row/edge growers, multiplication, identity and rotation      *)
(* generators and the parametric curve flattening.                         *)
(*                                                                         *)
(* A matrix is the record [nrows, ncols, data] with data the flat buffer   *)
(* (a sequence; flat offset i of the code is data[i + 1]).  f64 values are *)
(* modelled by integers.  A call that can panic returns a record whose ok  *)
(* field tells whether it returned; a panicking call leaves its receiver   *)
(* as it was, because every panic below happens before the first write.    *)
(***************************************************************************)
EXTENDS Integers, Sequences, FiniteSets, TLC

VARIABLES m, last, nops

vars == <<m, last, nops>>

\* ------------------------------------------------------------------ bounds

\* Rows and columns of constructed matrices range over 0..MaxDim.
MaxDim == 2
\* Calls made on the matrix after its construction.
MaxOps == 2
\* Longest sample sequence handed back by the parametric sampler.
MaxSamples == 3
\* Column count of the point/edge convention [x, y, z, 1].
EdgeCols == 4
\* Length of the edge vector [x0, y0, z0, x1, y1, z1].
EdgeLen == 6

\* Content patterns of the buffers handed to the constructor and the growers.
Seeds == {0, 1, 2}
\* Values written by set, and the coordinates of the point rows.
Vals == {0, 1}
\* The z handed to add_parametric.
Zs == {3}
\* Angles, in degrees, handed to rotatez.
Angles == {0, 90, 180, 270}

Cell(s, i) == (s * i) % 5
Fill(n, s) == [i \in 1..n |-> Cell(s, i)]

Dims == 0..MaxDim
ColDims == Dims \cup {EdgeCols}

\* ----------------------------------------------------------------- results

NoMatrix == [nrows |-> 0, ncols |-> 0, data |-> <<>>]
Ok(v) == [ok |-> TRUE, val |-> v]
Panic == [ok |-> FALSE, val |-> NoMatrix]

Min(x, y) == IF x < y THEN x ELSE y

\* ------------------------------------------------- constructor, get, set

index(M, row, col) == row * M.ncols + col

new(nrows, ncols, data) ==
    IF nrows * ncols = Len(data)
    THEN Ok([nrows |-> nrows, ncols |-> ncols, data |-> data])
    ELSE Panic

new_clone_vec(nrows, ncols, data) ==
    IF nrows * ncols = Len(data)
    THEN Ok([nrows |-> nrows, ncols |-> ncols, data |-> data])
    ELSE Panic

\* Option<f64>: <<>> is None, <<v>> is Some(v).  The slice index panics when
\* the offset is not below data.len().
get(M, row, col) ==
    IF row > M.nrows \/ col > M.ncols
    THEN [ok |-> TRUE, opt |-> <<>>]
    ELSE IF index(M, row, col) < Len(M.data)
         THEN [ok |-> TRUE, opt |-> <<M.data[index(M, row, col) + 1]>>]
         ELSE [ok |-> FALSE, opt |-> <<>>]

set(M, row, col, v) ==
    IF ~(row < M.nrows /\ col < M.ncols)
    THEN Panic
    ELSE IF index(M, row, col) < Len(M.data)
         THEN Ok([M EXCEPT !.data[index(M, row, col) + 1] = v])
         ELSE Panic

\* ------------------------------------------------------- add edge (row)

append_row(M, row) ==
    IF M.ncols = Len(row)
    THEN Ok([M EXCEPT !.data = @ \o row, !.nrows = @ + 1])
    ELSE Panic

\* append_edge that counts one row for the two it stores.
append_edge_one_row(M, edge) ==
    IF EdgeLen = Len(edge)
    THEN Ok([M EXCEPT !.data = @ \o SubSeq(edge, 1, 3) \o <<1>>
                                 \o SubSeq(edge, 4, 6) \o <<1>>,
                      !.nrows = @ + 1])
    ELSE Panic

append_edge(M, edge) ==
    IF EdgeLen = Len(edge)
    THEN Ok([M EXCEPT !.data = @ \o SubSeq(edge, 1, 3) \o <<1>>
                                 \o SubSeq(edge, 4, 6) \o <<1>>,
                      !.nrows = @ + 2])
    ELSE Panic

\* ------------------------------------------------------ row and col iter

\* The slice data[start..start + ncols] panics when it ends past the buffer.
row_iter_ok(M, r) == r * M.ncols + M.ncols <= Len(M.data)
row_iter(M, r) == SubSeq(M.data, r * M.ncols + 1, r * M.ncols + M.ncols)

\* step_by panics on a step of 0.
col_iter_ok(M) == M.ncols # 0
\* col_iter without the skip(c): every column read as column 0.
col_iter_no_skip(M, c) ==
    LET cnt == IF 0 >= Len(M.data) THEN 0
               ELSE ((Len(M.data) - 1) \div M.ncols) + 1
    IN [k \in 1..cnt |-> M.data[(k - 1) * M.ncols + 1]]

col_iter(M, c) ==
    LET cnt == IF c >= Len(M.data) THEN 0
               ELSE ((Len(M.data) - c - 1) \div M.ncols) + 1
    IN [k \in 1..cnt |-> M.data[c + (k - 1) * M.ncols + 1]]

\* ------------------------------------------------------------------- mul

index_to_rc(i, ncols) == <<i \div ncols, i % ncols>>

\* zip(..).fold(0.0, |sum, (a, b)| sum + a * b): zip stops with the shorter.
RECURSIVE fold_zip(_, _, _, _)
fold_zip(sum, s, t, k) ==
    IF k > Min(Len(s), Len(t)) THEN sum
    ELSE fold_zip(sum + s[k] * t[k], s, t, k + 1)

mul(self, other) ==
    IF self.ncols # other.nrows THEN Panic
    ELSE LET frows == self.nrows
             fcols == other.ncols
             n == frows * fcols
         IN IF n > 0 /\ (\E i \in 0..(n - 1) :
                            \/ ~row_iter_ok(self, index_to_rc(i, fcols)[1])
                            \/ ~col_iter_ok(other))
            THEN Panic
            ELSE new(frows, fcols,
                     [j \in 1..n |->
                        LET rc == index_to_rc(j - 1, fcols)
                        IN fold_zip(0, row_iter(self, rc[1]),
                                    col_iter(other, rc[2]), 1)])

transposed_mul(self, other) ==
    IF self.nrows # other.ncols THEN Panic
    ELSE LET frows == other.nrows
             fcols == self.nrows
             n == frows * fcols
         IN IF n > 0 /\ (\E i \in 0..(n - 1) :
                            \/ ~col_iter_ok(self)
                            \/ ~row_iter_ok(other, index_to_rc(i, fcols)[1]))
            THEN Panic
            ELSE new(frows, fcols,
                     [j \in 1..n |->
                        LET rc == index_to_rc(j - 1, fcols)
                        IN fold_zip(0, col_iter(self, rc[2]),
                                    row_iter(other, rc[1]), 1)])

\* mul_mut_b with the operands in the other order: b x a.
mul_mut_b_swapped(a, b) == mul(b, a)

\* *b = a.mul(b): the value b takes, or a panic that leaves b alone.
mul_mut_b(a, b) == mul(a, b)

\* -------------------------------------------------------------- identity

RECURSIVE ident_loop(_, _, _)
ident_loop(M, i, size) ==
    IF i >= size THEN M
    ELSE ident_loop(set(M, i, i, 1).val, i + 1, size)

ident(size) ==
    ident_loop(new(size, size, [i \in 1..(size * size) |-> 0]).val, 0, size)

\* to_ident that splits the flat index by nrows instead of ncols.
to_ident_by_rows(M) ==
    IF Len(M.data) > 0 /\ M.nrows = 0 THEN Panic
    ELSE Ok([M EXCEPT !.data =
                [j \in 1..Len(M.data) |->
                    LET rc == index_to_rc(j - 1, M.nrows)
                    IN IF rc[1] = rc[2] THEN 1 ELSE 0]])

\* index_to_rc divides by ncols for the first element of a non-empty buffer.
to_ident(M) ==
    IF Len(M.data) > 0 /\ M.ncols = 0 THEN Panic
    ELSE Ok([M EXCEPT !.data =
                [j \in 1..Len(M.data) |->
                    LET rc == index_to_rc(j - 1, M.ncols)
                    IN IF rc[1] = rc[2] THEN 1 ELSE 0]])

\* ------------------------------------------------------------- rotations

\* angle_deg.to_radians().cos() and .sin() at the multiples of 90 degrees.
Cos(deg) == CASE deg = 0 -> 1 [] deg = 90 -> 0 [] deg = 180 -> -1 [] deg = 270 -> 0
Sin(deg) == CASE deg = 0 -> 0 [] deg = 90 -> 1 [] deg = 180 -> 0 [] deg = 270 -> -1

\* rotatez with the two sines exchanged: -sin at (1, 0), sin at (0, 1).
rotatez_signs_exchanged(angle_deg) ==
    LET m0 == ident(4)
        m1 == set(m0, 0, 0, Cos(angle_deg)).val
        m2 == set(m1, 1, 1, Cos(angle_deg)).val
        m3 == set(m2, 1, 0, -Sin(angle_deg)).val
        m4 == set(m3, 0, 1, Sin(angle_deg)).val
    IN m4

rotatez(angle_deg) ==
    LET m0 == ident(4)
        m1 == set(m0, 0, 0, Cos(angle_deg)).val
        m2 == set(m1, 1, 1, Cos(angle_deg)).val
        m3 == set(m2, 1, 0, Sin(angle_deg)).val
        m4 == set(m3, 0, 1, -Sin(angle_deg)).val
    IN m4

\* ------------------------------------------------------- draw parametric

\* for points in samples.windows(2) { append_edge([x0, y0, z, x1, y1, z]) }
RECURSIVE windows_loop(_, _, _, _)
windows_loop(M, pts, z, i) ==
    IF i + 1 > Len(pts) THEN M
    ELSE windows_loop(
            append_edge(M, <<pts[i][1], pts[i][2], z,
                             pts[i + 1][1], pts[i + 1][2], z>>).val,
            pts, z, i + 1)

\* add_parametric over chunks(2) instead of windows(2): disjoint pairs.
RECURSIVE chunks_loop(_, _, _, _)
chunks_loop(M, pts, z, i) ==
    IF i + 1 > Len(pts) THEN M
    ELSE chunks_loop(
            append_edge(M, <<pts[i][1], pts[i][2], z,
                             pts[i + 1][1], pts[i + 1][2], z>>).val,
            pts, z, i + 2)

add_parametric_chunks(M, pts, z) == chunks_loop(M, pts, z, 1)

add_parametric(M, pts, z) == windows_loop(M, pts, z, 1)

\* Sample sequences the sampler may hand back: any finite sequence of pairs.
SampleSeqs ==
    {[i \in 1..n |-> <<Cell(s, i), Cell(s, i + 2)>>] :
        n \in 0..MaxSamples, s \in Seeds \ {0}}

\* ---------------------------------------------------------------- inputs

Matrices ==
    {new(r, c, Fill(r * c, s)).val : r \in Dims, c \in ColDims, s \in Seeds}

PointRows ==
    {new_clone_vec(1, EdgeCols, <<x, y, z, 1>>).val : x \in Vals, y \in Vals, z \in Vals}

RowVecs == {Fill(n, s) : n \in ColDims, s \in Seeds \ {0}}

EdgeVecs == {Fill(n, s) : n \in (EdgeLen - 1)..(EdgeLen + 1), s \in Seeds \ {0}}

Operands == Matrices

\* ----------------------------------------------------------------- state

Call(op, ok, pre, other, args, out, opt) ==
    [op |-> op, ok |-> ok, pre |-> pre, other |-> other, args |-> args,
     out |-> out, opt |-> opt]

Init ==
    /\ m \in Matrices \cup PointRows
    /\ last = Call("new", TRUE, NoMatrix, NoMatrix, <<>>, m, <<>>)
    /\ nops = 0

\* A call on &mut self: the receiver takes the result, or stays on a panic.
Mutate(op, res, other, args) ==
    /\ nops < MaxOps
    /\ nops' = nops + 1
    /\ m' = IF res.ok THEN res.val ELSE m
    /\ last' = Call(op, res.ok, m, other, args, IF res.ok THEN res.val ELSE m, <<>>)

\* A call on &self: the receiver is untouched.
Pure(op, res, other, args) ==
    /\ nops < MaxOps
    /\ nops' = nops + 1
    /\ m' = m
    /\ last' = Call(op, res.ok, m, other, args, res.val, <<>>)

\* Rows and columns probed by get: first, last, one past, two past.
Probe(n) == {0, n - 1, n, n + 1} \cap Nat
\* Rows and columns written by set: first, last, one past.
Target(n) == {0, n - 1, n} \cap Nat

Get ==
    \E row \in Probe(m.nrows), col \in Probe(m.ncols) :
        /\ nops < MaxOps
        /\ nops' = nops + 1
        /\ m' = m
        /\ last' = Call("get", get(m, row, col).ok, m, NoMatrix, <<row, col>>,
                        m, get(m, row, col).opt)

Set ==
    \E row \in Target(m.nrows), col \in Target(m.ncols), v \in Vals :
        Mutate("set", set(m, row, col, v), NoMatrix, <<row, col, v>>)

AppendRow ==
    \E row \in RowVecs : Mutate("append_row", append_row(m, row), NoMatrix, row)

AppendEdge ==
    \E edge \in EdgeVecs : Mutate("append_edge", append_edge(m, edge), NoMatrix, edge)

ToIdent == Mutate("to_ident", to_ident(m), NoMatrix, <<>>)

MulMutB ==
    \E a \in Operands : Mutate("mul_mut_b", mul_mut_b(a, m), a, <<>>)

\* The samples are kept in last.args, flattened to x0, y0, x1, y1, ...
AddParametric ==
    \E pts \in SampleSeqs, z \in Zs :
        Mutate("add_parametric", Ok(add_parametric(m, pts, z)), NoMatrix,
               <<z>> \o [i \in 1..(2 * Len(pts)) |-> pts[(i + 1) \div 2][2 - (i % 2)]])

Mul == \E other \in Operands : Pure("mul", mul(m, other), other, <<>>)

TransposedMul ==
    \E other \in Operands :
        Pure("transposed_mul", transposed_mul(m, other), other, <<>>)

\* A transform applied to the rows of m: m.mul(&Matrix::rotatez(angle)).
Rotatez ==
    \E angle \in Angles :
        Pure("rotatez", mul(m, rotatez(angle)), rotatez(angle), <<angle>>)

\* The life of one matrix: construction, then reads and in-place changes.
Next ==
    \/ Get
    \/ Set
    \/ AppendRow
    \/ AppendEdge
    \/ ToIdent
    \/ MulMutB
    \/ AddParametric

Spec == Init /\ [][Next]_vars

\* The products of a constructed matrix with every operand.
MulNext ==
    \/ Mul
    \/ TransposedMul
    \/ Rotatez

MulSpec == Init /\ [][MulNext]_vars

\* ------------------------------------------------------------ properties

\* The data model's invariant, and the cell (r, c) it places at r * ncols + c.
WellFormed(M) == Len(M.data) = M.nrows * M.ncols
At(M, r, c) == M.data[r * M.ncols + c + 1]

\* Sum over j < k of A(r, j) * B(j, c).
RECURSIVE DotRowCol(_, _, _, _, _)
DotRowCol(A, B, r, c, k) ==
    IF k = 0 THEN 0
    ELSE DotRowCol(A, B, r, c, k - 1) + At(A, r, k - 1) * At(B, k - 1, c)

\* The a.nrows-by-b.ncols product a x b, cell by cell.
Product(A, B) ==
    [nrows |-> A.nrows, ncols |-> B.ncols,
     data |-> [i \in 1..(A.nrows * B.ncols) |->
                 DotRowCol(A, B, (i - 1) \div B.ncols, (i - 1) % B.ncols, A.ncols)]]

\* A reference transpose: cell (r, c) of the result is cell (c, r) of M.
Transpose(M) ==
    [nrows |-> M.ncols, ncols |-> M.nrows,
     data |-> [i \in 1..(M.nrows * M.ncols) |->
                 At(M, (i - 1) % M.nrows, (i - 1) \div M.nrows)]]

\* C1: data.len() = nrows * ncols in every state reached by constructing a
\* matrix and calling set, append_row, append_edge, to_ident, mul_mut_b on
\* it; a call that would break the equality panics instead.
C1_LenInvariant == Len(m.data) = m.nrows * m.ncols

\* C2: get never panics; it returns the cell (row, col) when row < nrows and
\* col < ncols, and None when row >= nrows or col >= ncols.
C2_GetTotal ==
    (last.op = "get" /\ WellFormed(last.pre)) =>
        LET row == last.args[1]
            col == last.args[2]
        IN /\ last.ok
           /\ last.opt = IF row < last.pre.nrows /\ col < last.pre.ncols
                         THEN <<At(last.pre, row, col)>>
                         ELSE <<>>

\* C3: mul(A, B) panics iff A.ncols # B.nrows; otherwise the result is
\* A.nrows by B.ncols, its cell (r, c), at flat offset r * B.ncols + c, is the
\* sum over k of A(r, k) * B(k, c), every cell is 0 when the inner dimension
\* is 0, and A is left as it was.
C3_MulProduct ==
    last.op = "mul" =>
        LET A == last.pre
            B == last.other
            R == last.out
        IN /\ last.ok <=> (A.ncols = B.nrows)
           /\ last.ok =>
                /\ R.nrows = A.nrows
                /\ R.ncols = B.ncols
                /\ Len(R.data) = A.nrows * B.ncols
                /\ \A r \in 0..(A.nrows - 1), c \in 0..(B.ncols - 1) :
                      R.data[r * B.ncols + c + 1] = DotRowCol(A, B, r, c, A.ncols)
                /\ A.ncols = 0 => \A i \in 1..Len(R.data) : R.data[i] = 0
           /\ m = A

\* A non-square product with a non-zero cell has been computed.
C3_Witness ==
    /\ last.op = "mul"
    /\ last.ok
    /\ last.pre.nrows = 1
    /\ last.pre.ncols = 2
    /\ last.other.ncols = 2
    /\ \E i \in 1..Len(last.out.data) : last.out.data[i] # 0

\* C4: whenever A.nrows = B.ncols, transposed_mul(A, B) returns the matrix
\* mul(transpose(A), transpose(B)), dimensions and cells.
C4_TransposedMulIsMulOfTransposes ==
    (last.op = "transposed_mul" /\ last.pre.nrows = last.other.ncols) =>
        /\ last.ok
        /\ last.out = mul(Transpose(last.pre), Transpose(last.other)).val

\* C5: transposed_mul(self, other) panics exactly when self.nrows #
\* other.ncols; otherwise the result is other.nrows by self.ncols and its
\* cell (r, c) is the dot product of self's column c and other's row r.
C5_TransposedMulContract ==
    last.op = "transposed_mul" =>
        LET S == last.pre
            O == last.other
            R == last.out
        IN /\ last.ok <=> (S.nrows = O.ncols)
           /\ last.ok =>
                /\ R.nrows = O.nrows
                /\ R.ncols = S.ncols
                /\ Len(R.data) = O.nrows * S.ncols
                /\ \A r \in 0..(O.nrows - 1), c \in 0..(S.ncols - 1) :
                      R.data[r * S.ncols + c + 1] = DotRowCol(O, S, r, c, S.nrows)

\* The point row [1, 0, 0, 1] has been multiplied by rotatez(90).
C6_Witness ==
    /\ last.op = "rotatez"
    /\ last.args = <<90>>
    /\ last.pre = [nrows |-> 1, ncols |-> 4, data |-> <<1, 0, 0, 1>>]

\* C6 as stated: with cos 90 = 0 and sin 90 = 1, the point row [1, 0, 0, 1]
\* times rotatez(90) is the point row [0, 1, 0, 1].
C6_RotatezQuarterTurn ==
    C6_Witness =>
        /\ last.ok
        /\ last.out = [nrows |-> 1, ncols |-> 4, data |-> <<0, 1, 0, 1>>]

\* C6 as amended: with cos 90 = 0 and sin 90 = 1, the point row
\* [1, 0, 0, 1] times rotatez(90) is the point row [0, -1, 0, 1].
C6_RotatezQuarterTurnClockwise ==
    C6_Witness =>
        /\ last.ok
        /\ last.out = [nrows |-> 1, ncols |-> 4, data |-> <<0, -1, 0, 1>>]

C8_AddParametricEdges ==
    (last.op = "add_parametric" /\ last.pre.ncols = 4) =>
        LET old == last.pre
            z == last.args[1]
            N == (Len(last.args) - 1) \div 2
            x(i) == last.args[2 * i]
            y(i) == last.args[2 * i + 1]
            edges == IF N > 1 THEN N - 1 ELSE 0
        IN /\ last.ok
           /\ m.nrows = old.nrows + 2 * edges
           /\ m.ncols = old.ncols
           /\ Len(m.data) = m.nrows * m.ncols
           /\ \A r \in 0..(old.nrows - 1), c \in 0..3 :
                 At(m, r, c) = At(old, r, c)
           /\ \A i \in 1..edges :
                 LET r0 == old.nrows + 2 * (i - 1)
                 IN /\ <<At(m, r0, 0), At(m, r0, 1), At(m, r0, 2), At(m, r0, 3)>>
                         = <<x(i), y(i), z, 1>>
                    /\ <<At(m, r0 + 1, 0), At(m, r0 + 1, 1),
                         At(m, r0 + 1, 2), At(m, r0 + 1, 3)>>
                         = <<x(i + 1), y(i + 1), z, 1>>

\* Three samples have been flattened into two chained edges after stored rows.
C8_Witness ==
    /\ last.op = "add_parametric"
    /\ last.pre.ncols = 4
    /\ last.pre.nrows > 0
    /\ Len(last.args) = 7
    /\ m.nrows = last.pre.nrows + 4

\* C9: when a.ncols = b.nrows, mul_mut_b(a, b) leaves b equal to the product
\* a x b_old, with a.nrows rows and b_old.ncols columns; otherwise it panics
\* and b is left as it was.
C9_MulMutBOrder ==
    last.op = "mul_mut_b" =>
        LET a == last.other
            b == last.pre
        IN IF a.ncols = b.nrows
           THEN /\ last.ok
                /\ m = Product(a, b)
           ELSE /\ ~last.ok
                /\ m = b

\* b has been replaced by a x b where b x a is another matrix.
C9_Witness ==
    /\ last.op = "mul_mut_b"
    /\ last.ok
    /\ last.other.nrows = last.pre.ncols
    /\ Len(m.data) > 0
    /\ m # Product(last.pre, last.other)

\* C10: to_ident keeps nrows and ncols and leaves cell (r, c) equal to 1 when
\* r = c and to 0 otherwise, whatever the matrix held; on an n-by-n matrix
\* the result is ident(n), and on its own result it changes nothing.
C10_ToIdentDiagonal ==
    (last.op = "to_ident" /\ WellFormed(last.pre)) =>
        LET old == last.pre
        IN /\ last.ok
           /\ m.nrows = old.nrows
           /\ m.ncols = old.ncols
           /\ Len(m.data) = Len(old.data)
           /\ \A r \in 0..(m.nrows - 1), c \in 0..(m.ncols - 1) :
                 At(m, r, c) = IF r = c THEN 1 ELSE 0
           /\ m.nrows = m.ncols => m = ident(m.nrows)
           /\ (\A r \in 0..(old.nrows - 1), c \in 0..(old.ncols - 1) :
                 At(old, r, c) = IF r = c THEN 1 ELSE 0) => m = old

\* to_ident has overwritten a non-square matrix that held other values.
C10_Witness ==
    /\ last.op = "to_ident"
    /\ last.ok
    /\ last.pre.nrows = 2
    /\ last.pre.ncols = 4
    /\ At(last.pre, 0, 1) # 0
    /\ At(m, 1, 1) = 1

====
